---- MODULE Spec2Model ----
(***************************************************************************)
(* Model of GestureDetector (synesthesia/gesture_detection.py): the clap   *)
(* history rule, the finger-state patterns (thumbs-up, open hand), the     *)
(* wave tracker and the per-gesture debounce, driven one frame at a time   *)
(* by detect().                                                            *)
(*                                                                         *)
(* Units.  Time is counted in ticks of 0.1 s, so debounce_time 0.5 s is 5  *)
(* ticks and the wave window 1.0 s is 10 ticks.  A normalized coordinate   *)
(* x is held as the integer x * w * SubPix (sub-pixels): int(x * w) is     *)
(* then c \div SubPix and |x1 - x0| * w > 60 is |c1 - c0| > 60 * SubPix.   *)
(* np.hypot(dx, dy) is held squared (dx*dx + dy*dy); d > 200 and d < 120   *)
(* are compared on the squares, which is exact for non-negative d.         *)
(***************************************************************************)
EXTENDS Integers, Sequences, FiniteSets, TLC

VARIABLES
    last_gesture_time,   \* self.last_gesture_time: kind -> time, Absent = no key
    clap_dist_history,   \* self.clap_dist_history (squared distances), <<>> before its creation
    wave_prev_time,      \* self.wave_prev_time, Absent before the attribute exists
    wave_start_pos,      \* self.wave_start_pos (sub-pixels), Absent before the attribute exists
    clap_state,          \* self.clap_state
    prev_dist,           \* self.prev_dist (Absent = None)
    now,                 \* the last value time.time() returned
    gesture,             \* the value the last detect() call returned
    emit_time,           \* history: kind -> gate time of the last returned event of the kind
    trace,               \* history: the branches the last detect() call took
    nframes,             \* history: number of detect() calls so far (saturates at MaxRuleFrames)
    self_debounce_time,  \* self.debounce_time, Absent when __init__ raised and no instance exists
    kwargs,              \* history: the keyword arguments GestureDetector(...) was called with
    other,               \* a second GestureDetector instance: its fields and its last return value
    last_event,          \* main(): last_event
    last_event_time,     \* main(): last_event_time
    drawn,               \* main(): the shape drawn on the frame shown last, NoShape when none was
    returned             \* history: the event main() got last from detect(), and the loop's clock then

vars == <<last_gesture_time, clap_dist_history, wave_prev_time, wave_start_pos,
          clap_state, prev_dist, now, gesture, emit_time, trace, nframes,
          self_debounce_time, kwargs, other,
          last_event, last_event_time, drawn, returned>>

(* The variables of main()'s loop *)
display == <<last_event, last_event_time, drawn, returned>>

----------------------------------------------------------------------------
(* Bounds of the model *)

MaxTime == 16
MaxFrames == 3
MaxRuleFrames == 4
SubPix == 2

(* Program constants *)

debounce_time == 5
FarThreshold == 200
CloseThreshold == 120
HistoryCapacity == 10
WaveWindow == 10
WaveMinTravel == 60
MaxNumHands == 2
event_display_duration == 10

(* Fields __init__ sets and detect() never reads *)
dist_threshold_apart == 120
dist_threshold_close == 70
speed_threshold_close == 300
speed_threshold_apart == 200

Kinds == {"clap_gesture", "thumbs_up", "wave"}
None == "none"
NoShape == "no_shape"
Absent == -1

ThumbsUp == <<1, 0, 0, 0, 0>>
OpenHand == <<1, 1, 1, 1, 1>>

Abs(n) == IF n < 0 THEN -n ELSE n

----------------------------------------------------------------------------
(* time.time(): the call's reads are numbered 1, 2, ...; the clock shows t *)
(* at the call's first read and may have ticked once (cross > 0) before    *)
(* read number cross.                                                      *)

Clock(m) == IF m.cross > 0 /\ m.reads + 1 >= m.cross THEN m.t + 1 ELSE m.t

(* self.last_gesture_time.get(gesture, 0) *)
GetLast(table, g) == IF table[g] = Absent THEN 0 ELSE table[g]

(* GateOpen with now - last_time >= self.debounce_time *)
GateOpenInclusive(m, t, last) == t - last >= m.dt

(* now - last_time > self.debounce_time *)
GateOpen(m, t, last) == t - last > m.dt

(* _debounce that forgets the kind's entry when it denies the candidate *)
debounceDropOnDeny(m, g) ==
    LET t == Clock(m)
        m1 == [m EXCEPT !.reads = @ + 1,
                        !.cand[g] = @ \cup {t}]
    IN  IF GateOpen(m, t, GetLast(m.lgt, g))
        THEN [ok |-> TRUE, at |-> t, m |-> [m1 EXCEPT !.lgt[g] = t]]
        ELSE [ok |-> FALSE, at |-> t, m |-> [m1 EXCEPT !.lgt[g] = Absent]]

(* _debounce(gesture): reads the clock once; returns [ok, at, m].  m.cand *)
(* notes the times at which the call asked the gate about each kind.      *)
debounce(m, g) ==
    LET t == Clock(m)
        m1 == [m EXCEPT !.reads = @ + 1,
                        !.cand[g] = @ \cup {t}]
    IN  IF GateOpen(m, t, GetLast(m.lgt, g))
        THEN [ok |-> TRUE, at |-> t, m |-> [m1 EXCEPT !.lgt[g] = t]]
        ELSE [ok |-> FALSE, at |-> t, m |-> m1]

----------------------------------------------------------------------------
(* Hands.  A hand is the landmark list of one detected hand: a function    *)
(* from the landmark index 0..20 to a point [x, y] in sub-pixels.          *)

Landmarks == 0..20
FingerTips == <<8, 12, 16, 20>>

(* int(hand.x * w), int(hand.y * h) *)
ToPixel(c) == c \div SubPix

(* np.hypot(x2 - x1, y2 - y1) of the two wrists' pixel positions, squared *)
WristDist(h1, h2) ==
    LET dx == ToPixel(h2[0].x) - ToPixel(h1[0].x)
        dy == ToPixel(h2[0].y) - ToPixel(h1[0].y)
    IN  dx * dx + dy * dy

(* _get_min_distance (called nowhere): the distance between the two palm   *)
(* centres, palm = (wrist + middle-finger base) / 2, without int().  Held  *)
(* as the square of 2 * SubPix times the distance in pixels, which keeps   *)
(* the halves and the sub-pixels exact.                                    *)
PalmCentre2(h) == [x |-> h[0].x + h[9].x, y |-> h[0].y + h[9].y]

get_min_distance(f) ==
    IF Len(f) = 2
    THEN LET dx == PalmCentre2(f[1]).x - PalmCentre2(f[2]).x
             dy == PalmCentre2(f[1]).y - PalmCentre2(f[2]).y
         IN  dx * dx + dy * dy
    ELSE Absent

(* the thumb bit: landmark[4].x < landmark[3].x *)
ThumbBit(h) == IF h[4].x < h[3].x THEN 1 ELSE 0

(* FingerBit with landmark[tip].y <= landmark[tip-2].y *)
FingerBitInclusive(h, tip) == IF h[tip].y <= h[tip - 2].y THEN 1 ELSE 0

(* another finger's bit: landmark[tip].y < landmark[tip - 2].y *)
FingerBit(h, tip) == IF h[tip].y < h[tip - 2].y THEN 1 ELSE 0

(* fingers: [thumb, index, middle, ring, pinky] *)
Fingers(h) ==
    <<ThumbBit(h)>> \o [i \in 1..4 |-> FingerBit(h, FingerTips[i])]

----------------------------------------------------------------------------
(* The clap rule on a two-hand frame. *)

(* Trim with pop() in place of pop(0): the newest sample is evicted *)
TrimNewest(h) == IF Len(h) > HistoryCapacity THEN SubSeq(h, 1, Len(h) - 1) ELSE h

(* Trim popping one sample late: len(...) > 11 *)
TrimLate(h) == IF Len(h) > HistoryCapacity + 1 THEN Tail(h) ELSE h

(* self.clap_dist_history.append(dist); if len(...) > 10: pop(0) *)
Trim(h) == IF Len(h) > HistoryCapacity THEN Tail(h) ELSE h

(* WasFar over clap_dist_history[:-1]: only the current sample excluded *)
WasFarButLast(h) ==
    \E i \in 1..(Len(h) - 1) : h[i] > FarThreshold * FarThreshold

(* any(d > 200 for d in self.clap_dist_history[:-2]) *)
WasFar(h) ==
    \E i \in 1..(Len(h) - 2) : h[i] > FarThreshold * FarThreshold

(* IsClose with dist <= 120 *)
IsCloseInclusive(d) == d <= CloseThreshold * CloseThreshold

(* IsClose reading the unused field: dist < self.dist_threshold_close *)
IsCloseDeadField(d) == d < dist_threshold_close * dist_threshold_close

(* dist < 120 *)
IsClose(d) == d < CloseThreshold * CloseThreshold

(* ClapStep reading the field of line 25: dist < self.dist_threshold_close *)
ClapStepDeadThreshold(m, f) ==
    IF Len(f) = 2
    THEN LET dist == WristDist(f[1], f[2])
             h1 == Append(m.hist, dist)
             h2 == Trim(h1)
             m1 == [m EXCEPT !.hist = h2, !.tr.popped = (Len(h1) > Len(h2))]
         IN  IF WasFar(h2) /\ dist < m.dtc * m.dtc
             THEN LET r == debounce(m1, "clap_gesture")
                  IN  IF r.ok
                      THEN [r.m EXCEPT !.returned = TRUE, !.gesture = "clap_gesture",
                                       !.gtime = r.at, !.tr.clap = "clap"]
                      ELSE [r.m EXCEPT !.tr.clap = "denied"]
             ELSE [m1 EXCEPT !.tr.clap = "nocand"]
    ELSE [m EXCEPT !.cstate = "apart", !.pdist = Absent, !.tr.clap = "reset"]

(* ClapStep with the far-then-close test dedented out of "if len == 2": a  *)
(* frame of another hand count tests the history as it stands              *)
ClapStepAnyCount(m, f) ==
    LET h1 == IF Len(f) = 2 THEN Append(m.hist, WristDist(f[1], f[2])) ELSE m.hist
        h2 == Trim(h1)
        m1 == [m EXCEPT !.hist = h2, !.tr.popped = (Len(h1) > Len(h2))]
    IN  IF h2 # <<>> /\ WasFar(h2) /\ IsClose(h2[Len(h2)])
        THEN LET r == debounce(m1, "clap_gesture")
             IN  IF r.ok
                 THEN [r.m EXCEPT !.returned = TRUE, !.gesture = "clap_gesture",
                                  !.gtime = r.at, !.tr.clap = "clap"]
                 ELSE [r.m EXCEPT !.tr.clap = "denied"]
        ELSE [m1 EXCEPT !.tr.clap = "nocand"]

(* ClapStep returning the sound detector's token, 'clap_sound' *)
ClapStepSound(m, f) ==
    IF Len(f) = 2
    THEN LET dist == WristDist(f[1], f[2])
             h1 == Append(m.hist, dist)
             h2 == Trim(h1)
             m1 == [m EXCEPT !.hist = h2, !.tr.popped = (Len(h1) > Len(h2))]
         IN  IF WasFar(h2) /\ IsClose(dist)
             THEN LET r == debounce(m1, "clap_gesture")
                  IN  IF r.ok
                      THEN [r.m EXCEPT !.returned = TRUE, !.gesture = "clap_sound",
                                       !.gtime = r.at, !.tr.clap = "clap"]
                      ELSE [r.m EXCEPT !.tr.clap = "denied"]
             ELSE [m1 EXCEPT !.tr.clap = "nocand"]
    ELSE [m EXCEPT !.cstate = "apart", !.pdist = Absent, !.tr.clap = "reset"]

(* The block of detect() under "if len(hand_landmarks) == 2", and its else. *)
ClapStep(m, f) ==
    IF Len(f) = 2
    THEN LET dist == WristDist(f[1], f[2])
             h1 == Append(m.hist, dist)
             h2 == Trim(h1)
             m1 == [m EXCEPT !.hist = h2, !.tr.popped = (Len(h1) > Len(h2))]
         IN  IF WasFar(h2) /\ IsClose(dist)
             THEN LET r == debounce(m1, "clap_gesture")
                  IN  IF r.ok
                      THEN [r.m EXCEPT !.returned = TRUE, !.gesture = "clap_gesture",
                                       !.gtime = r.at, !.tr.clap = "clap"]
                      ELSE [r.m EXCEPT !.tr.clap = "denied"]
             ELSE [m1 EXCEPT !.tr.clap = "nocand"]
    ELSE [m EXCEPT !.cstate = "apart", !.pdist = Absent, !.tr.clap = "reset"]

----------------------------------------------------------------------------
(* The per-hand block of detect(). *)

(* ThumbStep that tolerates a raised index finger: [1,_,0,0,0] *)
ThumbStepLoose(m, fingers) ==
    IF fingers[1] = 1 /\ fingers[3] = 0 /\ fingers[4] = 0 /\ fingers[5] = 0
    THEN LET r == debounce(m, "thumbs_up")
         IN  IF r.ok
             THEN [r.m EXCEPT !.gesture = "thumbs_up", !.gtime = r.at, !.tag = "allowed"]
             ELSE [r.m EXCEPT !.tag = "denied"]
    ELSE [m EXCEPT !.tag = "no"]

(* if fingers == [1, 0, 0, 0, 0]: if self._debounce('thumbs_up'): gesture = ... *)
ThumbStep(m, fingers) ==
    IF fingers = ThumbsUp
    THEN LET r == debounce(m, "thumbs_up")
         IN  IF r.ok
             THEN [r.m EXCEPT !.gesture = "thumbs_up", !.gtime = r.at,
                              !.tag = "allowed"]
             ELSE [r.m EXCEPT !.tag = "denied"]
    ELSE [m EXCEPT !.tag = "no"]

(* WaveStep dropping the reference when the hand is not open *)
WaveStepForget(m, fingers, h) ==
    IF fingers = OpenHand
    THEN IF m.wpt = Absent
         THEN [m EXCEPT !.wpt = Clock(m), !.wsp = h[0].x, !.reads = @ + 1,
                        !.wtag = "seed", !.wt = Clock(m)]
         ELSE LET t == Clock(m)
                  m1 == [m EXCEPT !.reads = @ + 1, !.wt = t]
              IN  IF t - m.wpt < WaveWindow
                  THEN IF Abs(h[0].x - m.wsp) > WaveMinTravel * SubPix
                       THEN LET r == debounce(m1, "wave")
                            IN  IF r.ok
                                THEN [r.m EXCEPT !.gesture = "wave", !.gtime = r.at,
                                                 !.wtag = "allowed"]
                                ELSE [r.m EXCEPT !.wtag = "denied"]
                       ELSE [m1 EXCEPT !.wtag = "still"]
                  ELSE [m1 EXCEPT !.wpt = Clock(m1), !.wsp = h[0].x, !.reads = @ + 1,
                                  !.wtag = "expired"]
    ELSE [m EXCEPT !.wpt = Absent, !.wsp = Absent, !.wtag = "no", !.wt = Absent]

(* WaveStep whose first open hand starts the reference at x = 0 *)
WaveStepSeedOrigin(m, fingers, h) ==
    IF fingers = OpenHand
    THEN IF m.wpt = Absent
         THEN [m EXCEPT !.wpt = Clock(m), !.wsp = 0, !.reads = @ + 1,
                        !.wtag = "seed", !.wt = Clock(m)]
         ELSE LET t == Clock(m)
                  m1 == [m EXCEPT !.reads = @ + 1, !.wt = t]
              IN  IF t - m.wpt < WaveWindow
                  THEN IF Abs(h[0].x - m.wsp) > WaveMinTravel * SubPix
                       THEN LET r == debounce(m1, "wave")
                            IN  IF r.ok
                                THEN [r.m EXCEPT !.gesture = "wave", !.gtime = r.at,
                                                 !.wtag = "allowed"]
                                ELSE [r.m EXCEPT !.wtag = "denied"]
                       ELSE [m1 EXCEPT !.wtag = "still"]
                  ELSE [m1 EXCEPT !.wpt = Clock(m1), !.wsp = h[0].x, !.reads = @ + 1,
                                  !.wtag = "expired"]
    ELSE [m EXCEPT !.wtag = "no", !.wt = Absent]

(* WaveStep that follows the hand: a hand inside the window that moved no  *)
(* more than 60 px becomes the new reference position                      *)
WaveStepFollow(m, fingers, h) ==
    IF fingers = OpenHand
    THEN IF m.wpt = Absent
         THEN [m EXCEPT !.wpt = Clock(m), !.wsp = h[0].x, !.reads = @ + 1,
                        !.wtag = "seed", !.wt = Clock(m)]
         ELSE LET t == Clock(m)
                  m1 == [m EXCEPT !.reads = @ + 1, !.wt = t]
              IN  IF t - m.wpt < WaveWindow
                  THEN IF Abs(h[0].x - m.wsp) > WaveMinTravel * SubPix
                       THEN LET r == debounce(m1, "wave")
                            IN  IF r.ok
                                THEN [r.m EXCEPT !.gesture = "wave", !.gtime = r.at,
                                                 !.wtag = "allowed"]
                                ELSE [r.m EXCEPT !.wtag = "denied"]
                       ELSE [m1 EXCEPT !.wsp = h[0].x, !.wtag = "still"]
                  ELSE [m1 EXCEPT !.wpt = Clock(m1), !.wsp = h[0].x, !.reads = @ + 1,
                                  !.wtag = "expired"]
    ELSE [m EXCEPT !.wtag = "no", !.wt = Absent]

(* WaveStep that keeps an expired reference: after 1.0 s it raises nothing *)
(* and stores nothing                                                      *)
WaveStepKeepExpired(m, fingers, h) ==
    IF fingers = OpenHand
    THEN IF m.wpt = Absent
         THEN [m EXCEPT !.wpt = Clock(m), !.wsp = h[0].x, !.reads = @ + 1,
                        !.wtag = "seed", !.wt = Clock(m)]
         ELSE LET t == Clock(m)
                  m1 == [m EXCEPT !.reads = @ + 1, !.wt = t]
              IN  IF t - m.wpt < WaveWindow
                  THEN IF Abs(h[0].x - m.wsp) > WaveMinTravel * SubPix
                       THEN LET r == debounce(m1, "wave")
                            IN  IF r.ok
                                THEN [r.m EXCEPT !.gesture = "wave", !.gtime = r.at,
                                                 !.wtag = "allowed"]
                                ELSE [r.m EXCEPT !.wtag = "denied"]
                       ELSE [m1 EXCEPT !.wtag = "still"]
                  ELSE [m1 EXCEPT !.wtag = "expired"]
    ELSE [m EXCEPT !.wtag = "no", !.wt = Absent]

(* WaveStep that drops the reference once the wave was returned *)
WaveStepClearOnWave(m, fingers, h) ==
    IF fingers = OpenHand
    THEN IF m.wpt = Absent
         THEN [m EXCEPT !.wpt = Clock(m), !.wsp = h[0].x, !.reads = @ + 1,
                        !.wtag = "seed", !.wt = Clock(m)]
         ELSE LET t == Clock(m)
                  m1 == [m EXCEPT !.reads = @ + 1, !.wt = t]
              IN  IF t - m.wpt < WaveWindow
                  THEN IF Abs(h[0].x - m.wsp) > WaveMinTravel * SubPix
                       THEN LET r == debounce(m1, "wave")
                            IN  IF r.ok
                                THEN [r.m EXCEPT !.gesture = "wave", !.gtime = r.at,
                                                 !.wtag = "allowed",
                                                 !.wpt = Absent, !.wsp = Absent]
                                ELSE [r.m EXCEPT !.wtag = "denied"]
                       ELSE [m1 EXCEPT !.wtag = "still"]
                  ELSE [m1 EXCEPT !.wpt = Clock(m1), !.wsp = h[0].x, !.reads = @ + 1,
                                  !.wtag = "expired"]
    ELSE [m EXCEPT !.wtag = "no", !.wt = Absent]

(* InWindow with <= 1.0 *)
InWindowInclusive(t, ref) == t - ref <= WaveWindow

(* time.time() - self.wave_prev_time < 1.0 *)
InWindow(t, ref) == t - ref < WaveWindow

(* abs(current_pos - self.wave_start_pos) * frame.shape[1], in sub-pixels *)
Movement(pos, ref) == Abs(pos - ref)

(* movement > 60 *)
Travelled(mv) == mv > WaveMinTravel * SubPix

(* if fingers == [1, 1, 1, 1, 1]: ... ; m.wtag notes the branch taken and   *)
(* m.wt the clock the block read first.                                    *)
WaveStep(m, fingers, h) ==
    IF fingers = OpenHand
    THEN IF m.wpt = Absent
         THEN [m EXCEPT !.wpt = Clock(m), !.wsp = h[0].x, !.reads = @ + 1,
                        !.wtag = "seed", !.wt = Clock(m)]
         ELSE LET t == Clock(m)
                  m1 == [m EXCEPT !.reads = @ + 1, !.wt = t]
              IN  IF InWindow(t, m.wpt)
                  THEN IF Travelled(Movement(h[0].x, m.wsp))
                       THEN LET r == debounce(m1, "wave")
                            IN  IF r.ok
                                THEN [r.m EXCEPT !.gesture = "wave", !.gtime = r.at,
                                                 !.wtag = "allowed"]
                                ELSE [r.m EXCEPT !.wtag = "denied"]
                       ELSE [m1 EXCEPT !.wtag = "still"]
                  ELSE [m1 EXCEPT !.wpt = Clock(m1), !.wsp = h[0].x, !.reads = @ + 1,
                                  !.wtag = "expired"]
    ELSE [m EXCEPT !.wtag = "no", !.wt = Absent]

(* One iteration of "for handLms in hand_landmarks" *)
HandStep(m, h) ==
    LET fingers == Fingers(h)
        m1 == WaveStep(ThumbStep(m, fingers), fingers, h)
    IN  [m1 EXCEPT !.tr.hands =
            Append(@, [fingers |-> fingers, x |-> h[0].x,
                       thumb |-> m1.tag, wave |-> m1.wtag, wt |-> m1.wt,
                       ref_t |-> m.wpt, ref_x |-> m.wsp])]

(* The state after the first n hands of frame f were handled *)
RECURSIVE HandLoop(_, _, _)
HandLoop(m, f, n) == IF n = 0 THEN m ELSE HandStep(HandLoop(m, f, n - 1), f[n])

----------------------------------------------------------------------------
(* detect(frame): the whole call, as a function of the state at entry, the *)
(* frame's hands f, the clock t at the first read and the read at which    *)
(* the clock ticks.                                                        *)

(* The fields of the instance the model follows.  prev_time and the four  *)
(* thresholds of lines 24-27 are assigned in __init__ only.                *)
Self ==
    [lgt |-> last_gesture_time, hist |-> clap_dist_history,
     wpt |-> wave_prev_time, wsp |-> wave_start_pos,
     cstate |-> clap_state, pdist |-> prev_dist, dt |-> self_debounce_time,
     ptime |-> Absent,
     dta |-> dist_threshold_apart, dtc |-> dist_threshold_close,
     stc |-> speed_threshold_close, sta |-> speed_threshold_apart]

(* The call's record at its entry, for the instance with the fields s *)
Start(s, f, t, cross) ==
    [lgt |-> s.lgt, hist |-> s.hist,
     wpt |-> s.wpt, wsp |-> s.wsp,
     cstate |-> s.cstate, pdist |-> s.pdist, dt |-> s.dt,
     ptime |-> s.ptime, dta |-> s.dta, dtc |-> s.dtc, stc |-> s.stc, sta |-> s.sta,
     t |-> t, cross |-> cross, reads |-> 0,
     gesture |-> None, gtime |-> Absent, returned |-> FALSE,
     tag |-> "no", wtag |-> "no", wt |-> Absent, cand |-> [k \in Kinds |-> {}],
     tr |-> [n |-> Len(f), clap |-> "skip", popped |-> FALSE, hands |-> <<>>,
             cand |-> [k \in Kinds |-> {}],
             points |-> [i \in 1..Len(f) |-> Cardinality(DOMAIN f[i])],
             frame |-> f]]

Entry(f, t, cross) == Start(Self, f, t, cross)

(* Run leaving detect() as soon as the clap rule raised a candidate,       *)
(* returned or not                                                         *)
RunStopOnCandidate(f, t, cross) ==
    LET m0 == Entry(f, t, cross)
    IN  IF Len(f) = 0
        THEN m0
        ELSE LET m1 == ClapStep(m0, f)
             IN  IF m1.tr.clap \in {"clap", "denied"} THEN m1
                 ELSE HandLoop(m1, f, Len(f))

(* Run without the early return of the clap: the hand loop always runs *)
RunNoPreempt(f, t, cross) ==
    LET m0 == Entry(f, t, cross)
    IN  IF Len(f) = 0
        THEN m0
        ELSE HandLoop(ClapStep(m0, f), f, Len(f))

(* The state at the return of detect(f): "if results.multi_hand_landmarks" *)
(* skips a frame with no hand; a returned clap skips the hand loop.        *)
RunFrom(m0, f) ==
    IF Len(f) = 0
    THEN m0
    ELSE LET m1 == ClapStep(m0, f)
         IN  IF m1.returned THEN m1 ELSE HandLoop(m1, f, Len(f))

(* Run that treats a frame without hands as the end of a wave: it drops    *)
(* the wave reference                                                      *)
RunEmptyResets(f, t, cross) ==
    IF Len(f) = 0
    THEN [Entry(f, t, cross) EXCEPT !.wpt = Absent, !.wsp = Absent]
    ELSE RunFrom(Entry(f, t, cross), f)

Run(f, t, cross) == RunFrom(Entry(f, t, cross), f)

(* The clock after the call: the last value read, or t when none was read *)
ClockAfter(m) == IF m.cross > 0 /\ m.reads >= m.cross THEN m.t + 1 ELSE m.t

(* A newly constructed instance: the fields __init__ assigns, with the     *)
(* attributes detect() creates later (history, wave reference) absent.    *)
New(dt) ==
    [lgt |-> [k \in Kinds |-> Absent], hist |-> <<>>,
     wpt |-> Absent, wsp |-> Absent,
     cstate |-> "apart", pdist |-> Absent, dt |-> dt,
     ptime |-> Absent,
     dta |-> dist_threshold_apart, dtc |-> dist_threshold_close,
     stc |-> speed_threshold_close, sta |-> speed_threshold_apart,
     gesture |-> None, n |-> 0, pending |-> <<>>]

(* OtherEntry with last_gesture_time a class attribute, one dict for all   *)
(* instances                                                               *)
OtherEntryShared(f, t, cross) ==
    Start([other EXCEPT !.lgt = last_gesture_time], f, t, cross)

(* One call of detect() on the second instance, which has its own fields *)
OtherEntry(f, t, cross) == Start(other, f, t, cross)

OtherCall(f, t, cross) ==
    \E m \in {RunFrom(OtherEntry(f, t, cross), f)} :
        other' = [other EXCEPT !.lgt = m.lgt, !.hist = m.hist,
                               !.wpt = m.wpt, !.wsp = m.wsp,
                               !.cstate = m.cstate, !.pdist = m.pdist,
                               !.gesture = m.gesture,
                               !.n = IF @ < MaxRuleFrames THEN @ + 1 ELSE @,
                               !.pending = <<>>]

(* One call of detect() on the instance the model follows *)
Call(f, t, cross) ==
    /\ self_debounce_time # Absent
    /\ t >= now
    /\ t + (IF cross > 0 THEN 1 ELSE 0) <= MaxTime
    /\ \E m \in {Run(f, t, cross)} :
           /\ last_gesture_time' = m.lgt
           /\ clap_dist_history' = m.hist
           /\ wave_prev_time' = m.wpt
           /\ wave_start_pos' = m.wsp
           /\ clap_state' = m.cstate
           /\ prev_dist' = m.pdist
           /\ now' = ClockAfter(m)
           /\ gesture' = m.gesture
           /\ emit_time' = IF m.gesture = None THEN emit_time
                           ELSE [emit_time EXCEPT ![m.gesture] = m.gtime]
           /\ trace' = [m.tr EXCEPT !.cand = m.cand]
           /\ nframes' = IF nframes < MaxRuleFrames THEN nframes + 1 ELSE nframes
    /\ UNCHANGED <<self_debounce_time, kwargs>>

detect(f, t, cross) == Call(f, t, cross) /\ UNCHANGED <<other, display>>

(* GestureDetector called with the keywords kw.  __init__ takes one       *)
(* parameter, debounce_time=0.5: any other keyword raises TypeError, no    *)
(* instance.  kw is a set of <<name, value>> pairs, at most one per name.  *)
Accepted(kw) == \A p \in kw : p[1] = "debounce_time"

Given(kw, name, default) ==
    IF \E p \in kw : p[1] = name THEN (CHOOSE p \in kw : p[1] = name)[2] ELSE default

(* o is the second instance, constructed apart.                            *)
init(kw, o) ==
    /\ last_gesture_time = [k \in Kinds |-> Absent]
    /\ clap_dist_history = <<>>
    /\ wave_prev_time = Absent
    /\ wave_start_pos = Absent
    /\ clap_state = "apart"
    /\ prev_dist = Absent
    /\ now = 0
    /\ gesture = None
    /\ emit_time = [k \in Kinds |-> Absent]
    /\ trace = [n |-> 0, clap |-> "skip", popped |-> FALSE, hands |-> <<>>,
                cand |-> [k \in Kinds |-> {}], points |-> <<>>, frame |-> <<>>]
    /\ nframes = 0
    /\ self_debounce_time = IF Accepted(kw) THEN Given(kw, "debounce_time", debounce_time)
                            ELSE Absent
    /\ kwargs = kw
    /\ other = o
    /\ last_event = None
    /\ last_event_time = 0
    /\ drawn = NoShape
    /\ returned = [event |-> None, at |-> Absent]

(* GestureDetector(), as synesthesia.py constructs it *)
Init == init({}, New(debounce_time))

----------------------------------------------------------------------------
(* Frames fed to detect(). *)

Px(n) == n * SubPix

Fist == <<0, 0, 0, 0, 0>>
Partial == <<1, 1, 0, 0, 0>>

(* A hand with its wrist at (x, y) whose landmarks show the finger bits b *)
MkHand(x, y, b) ==
    [i \in Landmarks |->
        IF i = 0 THEN [x |-> x, y |-> y]
        ELSE IF i = 3 THEN [x |-> x + 2, y |-> y]
        ELSE IF i = 4 THEN [x |-> IF b[1] = 1 THEN x + 1 ELSE x + 2, y |-> y]
        ELSE IF i \in {8, 12, 16, 20}
             THEN [x |-> x, y |-> IF b[(i \div 4) ] = 1 THEN y + 1 ELSE y + 2]
        ELSE [x |-> x, y |-> y + 2]]

(* The frames of at most MaxNumHands hands drawn from the set H *)
FramesOf(H) == {<<>>} \cup {<<h>> : h \in H} \cup {<<g, h>> : g \in H, h \in H}

(* The clock values the calls start at (0.5 s, 0.6 s and 1.0 s apart), and  *)
(* the reads before which the clock may tick: never, or before the second.  *)
Times == {t \in {0, 6, 11, 12, 16} : t <= MaxTime}
Cross == {0, 2}

(* Frames of thumbs-up and open hands, two wrist positions 250 px apart *)
Hands == {MkHand(Px(0), 0, ThumbsUp), MkHand(Px(0), 0, OpenHand),
          MkHand(Px(250), 0, OpenHand)}
Frames == FramesOf(Hands)

Next ==
    /\ nframes < MaxFrames
    /\ \E f \in Frames, t \in Times, c \in Cross : detect(f, t, c)

Spec == Init /\ [][Next]_vars

(* Clap frames: closed hands only, no hand, one hand, or two hands whose    *)
(* wrists are 119 px (close) or 201 px (far) apart; any number of frames.   *)
ClapTimes == {t \in {0, 6, 12} : t <= MaxTime}
ClapFrames ==
    {<<>>, <<MkHand(Px(0), 0, Fist)>>,
     <<MkHand(Px(0), 0, Fist), MkHand(Px(119), 0, Fist)>>,
     <<MkHand(Px(0), 0, Fist), MkHand(Px(201), 0, Fist)>>}

NextClap == \E f \in ClapFrames, t \in ClapTimes : detect(f, t, 0)

SpecClap == Init /\ [][NextClap]_vars

(* Rule frames: two closed hands, the second wrist at a point whose         *)
(* distance from the first is 119, 120, 200 or 201 px along x (the last one *)
(* sub-pixel past 201), exactly 200 px along a 3-4-5 diagonal, or 201 px    *)
(* along y.                                                                 *)
RulePoints ==
    {<<Px(119), 0>>, <<Px(120), 0>>, <<Px(200), 0>>, <<Px(201) + 1, 0>>,
     <<Px(160), Px(120)>>, <<0, Px(201)>>}
RuleFrames ==
    {<<MkHand(Px(0), 0, Fist), MkHand(p[1], p[2], Fist)>> : p \in RulePoints}

NextRule ==
    /\ nframes < MaxRuleFrames
    /\ \E f \in RuleFrames, t \in ClapTimes : detect(f, t, 0)

SpecRule == Init /\ [][NextRule]_vars

(* Scenario A: eight two-hand frames whose wrist distances follow the       *)
(* script, the pair lying along x or along y, at any times.                 *)
ScenarioA == <<250, 230, 210, 180, 150, 130, 115, 90>>
ScenarioAFrames(d) ==
    {<<MkHand(Px(0), 0, b), MkHand(Px(d), 0, b)>> : b \in {Fist, ThumbsUp}}
        \cup {<<MkHand(Px(0), Px(d), Fist), MkHand(Px(0), 0, Fist)>>}

NextA ==
    /\ Len(clap_dist_history) < Len(ScenarioA)
    /\ \E f \in ScenarioAFrames(ScenarioA[Len(clap_dist_history) + 1]),
          t \in Times, c \in Cross : detect(f, t, c)

SpecA == Init /\ [][NextA]_vars

----------------------------------------------------------------------------
(* Reading the history variables. *)

(* A detect() call has returned, and this state is the one it left *)
Called == nframes > 0

(* The wave tracking state [t, x] that hand number i of the last call left: *)
(* the one the next hand met, or the one the call ended with.               *)
WaveAfter(tr, wpt, wsp, i) ==
    IF i < Len(tr.hands)
    THEN [t |-> tr.hands[i + 1].ref_t, x |-> tr.hands[i + 1].ref_x]
    ELSE [t |-> wpt, x |-> wsp]

(* Hand record r raised a wave candidate (the gate was asked about it) *)
RaisedWave(r) == r.wave \in {"allowed", "denied"}

(* The candidate that hand record r recorded, None when it recorded none *)
Recorded(r) ==
    IF r.wave = "allowed" THEN "wave"
    ELSE IF r.thumb = "allowed" THEN "thumbs_up"
    ELSE None

(* The clap rule raised a candidate in the call whose branches are tr *)
RaisedClap(tr) == tr.clap \in {"clap", "denied"}

----------------------------------------------------------------------------
(* C1: a frame whose hand count is not 2 leaves the clap history empty, and *)
(* the two-hand frame that follows it returns no clap.                      *)
C1_ClapReset ==
    [][/\ (trace'.n # 2 => clap_dist_history' = <<>>)
       /\ (Called /\ trace.n # 2 /\ trace'.n = 2 => gesture' # "clap_gesture")]_vars

(* C2: once an event of kind k was returned at time e, a later call that    *)
(* raises candidates of k returns k exactly when one of them comes more     *)
(* than debounce_time after e.                                              *)
C2_Debounce ==
    [][\A k \in Kinds :
          (emit_time[k] # Absent /\ trace'.cand[k] # {})
              => ((gesture' = k) <=>
                  (\E t \in trace'.cand[k] : t - emit_time[k] > debounce_time))]_vars

(* C3: a call returns no event or one kind of the three, and a returned     *)
(* kind is one the call raised a candidate of.                              *)
C3_OneToken ==
    /\ gesture \in Kinds \cup {None}
    /\ gesture # None => trace.cand[gesture] # {}

C3_Witness ==
    /\ trace.n = 2
    /\ Len(trace.hands) = 2
    /\ trace.hands[1].thumb = "allowed"
    /\ trace.hands[2].wave = "allowed"
    /\ gesture \in Kinds

(* C4: when the call did not return clap and some hand recorded a           *)
(* candidate, the call returns the candidate of the first such hand.        *)
C4_FirstHandWins ==
    (Called /\ trace.clap # "clap")
        => \A i \in DOMAIN trace.hands :
              (/\ Recorded(trace.hands[i]) # None
               /\ \A j \in 1..(i - 1) : Recorded(trace.hands[j]) = None)
                  => gesture = Recorded(trace.hands[i])

(* C5: a hand that raised a wave candidate leaves the tracking state        *)
(* reseeded to its wrist x and to a clock value read while handling it.     *)
C5_WaveReseed ==
    \A i \in DOMAIN trace.hands :
        RaisedWave(trace.hands[i])
            => LET a == WaveAfter(trace, wave_prev_time, wave_start_pos, i)
               IN  a.x = trace.hands[i].x /\ a.t >= trace.hands[i].wt

(* C6: an open hand seen WaveWindow or more after the reference time raises *)
(* no wave candidate and reseeds the tracking state to its wrist x and the  *)
(* current time; the next open hand is measured from that point.            *)
ExpiryReseeds(tr, wpt, wsp) ==
    \A i \in DOMAIN tr.hands :
        LET r == tr.hands[i]
            a == WaveAfter(tr, wpt, wsp, i)
        IN  (r.fingers = OpenHand /\ r.ref_t # Absent /\ r.wt - r.ref_t >= WaveWindow)
                => /\ ~RaisedWave(r)
                   /\ r.wave = "expired"
                   /\ a.x = r.x
                   /\ a.t >= r.wt /\ a.t <= r.wt + 1

MeasuredFromReseed(trA, trB) ==
    (/\ trA.hands # <<>> /\ trB.hands # <<>>
     /\ trA.hands[Len(trA.hands)].wave = "expired"
     /\ trB.hands[1].fingers = OpenHand)
        => LET r == trA.hands[Len(trA.hands)]
               q == trB.hands[1]
           IN  RaisedWave(q) <=>
                   (/\ q.wt - wave_prev_time < WaveWindow
                    /\ Abs(q.x - r.x) > WaveMinTravel * SubPix)

C7_HistoryBound == Len(clap_dist_history) <= HistoryCapacity

C7_Witness == trace.popped /\ Len(clap_dist_history) = HistoryCapacity

(* C8: on a two-hand frame a clap candidate is raised exactly when a sample *)
(* of the history without its two newest entries is above 200 px and the    *)
(* newest sample, the current distance, is below 120 px.                    *)
C8_ClapRule ==
    (Called /\ trace.n = 2)
        => LET h == clap_dist_history
           IN  RaisedClap(trace) <=>
                   /\ \E i \in 1..(Len(h) - 2) : h[i] > 200 * 200
                   /\ h[Len(h)] < 120 * 120

C8_Witness ==
    /\ RaisedClap(trace)
    /\ Len(clap_dist_history) = 4
    /\ clap_dist_history[1] = 200 * 200
    /\ clap_dist_history[3] = 120 * 120

(* C9: in scenario A the frame with distance 90, the eighth, raises a clap  *)
(* candidate.                                                               *)
C9_ScenarioA ==
    Len(clap_dist_history) = Len(ScenarioA) => RaisedClap(trace)

C9_Witness ==
    /\ clap_dist_history = [i \in 1..8 |-> ScenarioA[i] * ScenarioA[i]]
    /\ RaisedClap(trace)

(* C10: the first candidate of a kind that has no entry in the debounce     *)
(* table passes the gate, whatever the time.                                *)
C10_FirstCandidate ==
    [][\A k \in Kinds :
          (last_gesture_time[k] = Absent /\ trace'.cand[k] # {})
              => /\ last_gesture_time'[k] # Absent
                 /\ \A t \in trace'.cand[k] : last_gesture_time'[k] <= t]_vars

----------------------------------------------------------------------------
(* Scenario C: one hand in a frame 640 px wide, its wrist at x = 0.30       *)
(* (192 px) or x = 0.50 (320 px), at 0.0 s, 0.4 s, 1.0 s and 1.4 s.         *)
ScenarioCWidth == 640
ScenarioCRef == (30 * ScenarioCWidth) \div 100
ScenarioCPos == (50 * ScenarioCWidth) \div 100
ScenarioCTimes == {t \in {0, 4, 10, 14} : t <= MaxTime}
ScenarioCFrames ==
    {<<MkHand(Px(ScenarioCRef), 0, OpenHand)>>,
     <<MkHand(Px(ScenarioCPos), 0, OpenHand)>>,
     <<MkHand(Px(ScenarioCRef), 0, ThumbsUp)>>}

NextC ==
    /\ nframes < MaxFrames
    /\ \E f \in ScenarioCFrames, t \in ScenarioCTimes, c \in Cross : detect(f, t, c)

SpecC == Init /\ [][NextC]_vars

(* C11: an open hand seen while the tracker holds a reference raises a     *)
(* wave candidate exactly when less than 1.0 s passed since the reference  *)
(* time and the wrist is more than 60 px from the reference position; and  *)
(* in scenario C (reference x = 0.30 taken at 0.0 s, open hand at x = 0.50 *)
(* at 0.4 s, 640 px wide) the call returns wave.                           *)
WaveRule(r) ==
    (r.fingers = OpenHand /\ r.ref_t # Absent)
        => (RaisedWave(r) <=> /\ r.wt - r.ref_t < 10
                              /\ Abs(r.x - r.ref_x) > 60 * SubPix)

IsScenarioC(r) ==
    /\ r.fingers = OpenHand
    /\ r.ref_t = 0 /\ r.ref_x = Px(ScenarioCRef)
    /\ r.wt = 4 /\ r.x = Px(ScenarioCPos)

C11_WaveCandidate ==
    \A i \in DOMAIN trace.hands :
        /\ WaveRule(trace.hands[i])
        /\ IsScenarioC(trace.hands[i]) => gesture = "wave"

(* C12: a call on a frame that does not hold exactly two hands never       *)
(* returns the clap, whatever the frames before it were.                   *)
C12_NoClapWithoutTwoHands ==
    (Called /\ trace.n # 2) => gesture # "clap_gesture"

(* A one-hand frame right after a far-then-close run of two-hand frames *)
C12_Witness ==
    /\ Called /\ trace.n = 1 /\ gesture = None
    /\ Len(clap_dist_history) >= 3
    /\ WasFar(clap_dist_history)
    /\ IsClose(clap_dist_history[Len(clap_dist_history)])

(* C13: a call whose clap candidate passes the gate returns the clap and   *)
(* handles no hand: the wave reference and the debounce entries of         *)
(* thumbs_up and wave are what they were before the call.                  *)
C13_ClapPreempts ==
    [][trace'.clap = "clap"
          => /\ gesture' = "clap_gesture"
             /\ trace'.hands = <<>>
             /\ wave_prev_time' = wave_prev_time
             /\ wave_start_pos' = wave_start_pos
             /\ last_gesture_time'["thumbs_up"] = last_gesture_time["thumbs_up"]
             /\ last_gesture_time'["wave"] = last_gesture_time["wave"]]_vars

(* A returned clap on a frame of thumbs-up and open hands (the only poses  *)
(* of Hands), with a wave reference and a thumbs_up entry to preserve      *)
C13_Witness ==
    /\ trace.clap = "clap" /\ gesture = "clap_gesture"
    /\ wave_prev_time # Absent
    /\ last_gesture_time["thumbs_up"] # Absent

----------------------------------------------------------------------------
(* Two-hand frames of a thumbs-up hand and an open hand, the wrists 250 px *)
(* apart (far) or at the same place (close); up to MaxRuleFrames calls.    *)
PairFrames ==
    {<<MkHand(Px(0), 0, ThumbsUp), MkHand(Px(d), 0, OpenHand)>> : d \in {0, 250}}

NextPair ==
    /\ nframes < MaxRuleFrames
    /\ \E f \in PairFrames, t \in Times, c \in Cross : detect(f, t, c)

SpecPair == Init /\ [][NextPair]_vars

Evaluated(r) ==
    /\ r.fingers = ThumbsUp => r.thumb \in {"allowed", "denied"}
    /\ r.fingers = OpenHand => r.wave # "no"

(* C14: on a two-hand frame whose clap rule raised no candidate, or one    *)
(* the gate denied, both hands are run through the thumbs-up and the wave  *)
(* detector, and a candidate of theirs that passes the gate is returned.   *)
C14_Independent ==
    (Called /\ trace.n = 2 /\ trace.clap \in {"nocand", "denied"})
        => /\ Len(trace.hands) = 2
           /\ \A i \in DOMAIN trace.hands : Evaluated(trace.hands[i])
           /\ (\E i \in DOMAIN trace.hands : Recorded(trace.hands[i]) # None)
                 => gesture \in {"thumbs_up", "wave"}

(* A denied clap candidate and a thumbs_up returned by the same call *)
C14_Witness ==
    /\ trace.n = 2 /\ trace.clap = "denied"
    /\ gesture = "thumbs_up"
    /\ trace.hands[1].thumb = "allowed"

----------------------------------------------------------------------------
(* The _debounce calls of one detect() call, read from its trace *)
Calls(tr, k) ==
    IF k = "clap_gesture" THEN (IF RaisedClap(tr) THEN 1 ELSE 0)
    ELSE IF k = "thumbs_up"
         THEN Cardinality({i \in DOMAIN tr.hands : tr.hands[i].thumb \in {"allowed", "denied"}})
         ELSE Cardinality({i \in DOMAIN tr.hands : RaisedWave(tr.hands[i])})

Allowed(tr, k) ==
    IF k = "clap_gesture" THEN tr.clap = "clap"
    ELSE IF k = "thumbs_up"
         THEN \E i \in DOMAIN tr.hands : tr.hands[i].thumb = "allowed"
         ELSE \E i \in DOMAIN tr.hands : tr.hands[i].wave = "allowed"

(* C15: a _debounce(k) call at time t on a table holding an entry for k    *)
(* returns True exactly when t - table[k] > 0.5 s; a call that returns     *)
(* True sets table[k] = t and one that returns False leaves table[k], and  *)
(* every entry of a kind that was not asked for, as it was.                *)
C15_Gate ==
    [][\A k \in Kinds :
          /\ Calls(trace', k) = 0 => last_gesture_time'[k] = last_gesture_time[k]
          /\ Calls(trace', k) = 1 =>
                \A t \in trace'.cand[k] :
                    /\ last_gesture_time[k] # Absent
                          => (Allowed(trace', k) <=> t - last_gesture_time[k] > 5)
                    /\ Allowed(trace', k) => last_gesture_time'[k] = t
                    /\ ~Allowed(trace', k) => last_gesture_time'[k] = last_gesture_time[k]]_vars

(* A thumbs_up candidate exactly 0.5 s after the entry of 0.6 s: denied *)
C15_Witness ==
    /\ Calls(trace, "thumbs_up") = 1
    /\ trace.cand["thumbs_up"] = {11}
    /\ last_gesture_time["thumbs_up"] = 6
    /\ ~Allowed(trace, "thumbs_up")

(* C16: a call on a frame none of whose hands shows [1,1,1,1,1] leaves the *)
(* wave reference (position and time) as it was, whatever the number of    *)
(* hands of this frame and of the frames before it.                        *)
C16_WaveStateKept ==
    [][(\A i \in DOMAIN trace'.hands : trace'.hands[i].fingers # OpenHand)
          => /\ wave_prev_time' = wave_prev_time
             /\ wave_start_pos' = wave_start_pos]_vars

(* A reference is held and the last frame had two hands, neither open *)
C16_Witness ==
    /\ wave_prev_time # Absent
    /\ trace.n = 2 /\ Len(trace.hands) = 2
    /\ \A i \in DOMAIN trace.hands : trace.hands[i].fingers = ThumbsUp

(* C17: the first open hand seen (no reference held) stores its wrist x    *)
(* and the current time as the reference and raises no wave candidate.     *)
C17_FirstOpenHand ==
    \A i \in DOMAIN trace.hands :
        LET r == trace.hands[i]
            a == WaveAfter(trace, wave_prev_time, wave_start_pos, i)
        IN  (r.fingers = OpenHand /\ r.ref_t = Absent)
                => /\ r.wave = "seed"
                   /\ ~RaisedWave(r)
                   /\ a.x = r.x
                   /\ a.t = r.wt

(* The first open hand, 250 px from the origin, alone in its frame *)
C17_Witness ==
    /\ trace.n = 1 /\ Len(trace.hands) = 1
    /\ trace.hands[1].ref_t = Absent /\ trace.hands[1].wave = "seed"
    /\ trace.hands[1].x = Px(250)
    /\ wave_start_pos = Px(250) /\ wave_prev_time = trace.hands[1].wt
    /\ trace.cand["wave"] = {}

(* C18: after a two-hand frame that leaves fewer than 3 distances in the   *)
(* history, no clap candidate was raised, whatever the distances are.      *)
C18_ShortHistory ==
    (Called /\ trace.n = 2 /\ Len(clap_dist_history) < 3) => ~RaisedClap(trace)

(* Two samples, far (201 px) then close (119 px), and no candidate *)
C18_Witness ==
    /\ trace.n = 2 /\ trace.clap = "nocand"
    /\ Len(clap_dist_history) = 2
    /\ clap_dist_history[1] > 200 * 200
    /\ clap_dist_history[2] < 120 * 120

(* C19: the debounce table holds, for every kind, the time of the last     *)
(* call that returned that kind (no entry where none did): it is never     *)
(* advanced for a candidate that was not returned.                         *)
C19_TableIsLastEmission ==
    \A k \in Kinds : last_gesture_time[k] = emit_time[k]

----------------------------------------------------------------------------
(* A skeleton with one point more than the 21 landmarks detect() reads:    *)
(* landmark[0..20] as in MkHand, and a 22nd point at the wrist.            *)
MkLongHand(x, y, b) ==
    [i \in 0..(Cardinality(Landmarks)) |->
        IF i \in Landmarks THEN MkHand(x, y, b)[i] ELSE [x |-> x, y |-> y]]

LongHands ==
    {MkLongHand(Px(0), 0, ThumbsUp), MkLongHand(Px(250), 0, OpenHand),
     MkHand(Px(0), 0, ThumbsUp)}

NextLong ==
    /\ nframes < MaxFrames
    /\ \E f \in FramesOf(LongHands), t \in ClapTimes, c \in Cross : detect(f, t, c)

SpecLong == Init /\ [][NextLong]_vars

Malformed(tr) == {i \in DOMAIN tr.points : tr.points[i] # Cardinality(Landmarks)}

(* C20: a call on a frame with a hand that has not exactly 21 points       *)
(* fails: it returns no event, classifies no such hand into a finger       *)
(* vector and appends no wrist distance taken from it.                     *)
C20_MalformedRejected ==
    [][Malformed(trace') # {}
          => /\ gesture' = None
             /\ \A i \in Malformed(trace') : Len(trace'.hands) < i
             /\ clap_dist_history' = clap_dist_history]_vars

----------------------------------------------------------------------------
(* Frames of hands that show neither pattern ([1,1,0,0,0] and a fist),     *)
(* alone or as a pair 250 px apart or at one place, next to a thumbs-up    *)
(* hand and an open hand that fill the table and the wave reference.       *)
PoseFrames ==
    {<<>>,
     <<MkHand(Px(0), 0, Partial)>>,
     <<MkHand(Px(0), 0, Partial), MkHand(Px(250), 0, Fist)>>,
     <<MkHand(Px(0), 0, Partial), MkHand(Px(0), 0, Fist)>>,
     <<MkHand(Px(0), 0, ThumbsUp)>>,
     <<MkHand(Px(250), 0, OpenHand)>>}

NextPose ==
    /\ nframes < MaxRuleFrames
    /\ \E f \in PoseFrames, t \in ClapTimes, c \in Cross : detect(f, t, c)

SpecPose == Init /\ [][NextPose]_vars

NoPattern(f) ==
    \A i \in DOMAIN f : Fingers(f[i]) # ThumbsUp /\ Fingers(f[i]) # OpenHand

(* C21: a call that returns no clap on a frame none of whose hands shows   *)
(* exactly [1,0,0,0,0] or [1,1,1,1,1] returns no event and leaves the      *)
(* debounce table and the wave reference as they were.                     *)
C21_NoPartialMatch ==
    [][(NoPattern(trace'.frame) /\ gesture' # "clap_gesture")
          => /\ gesture' = None
             /\ last_gesture_time' = last_gesture_time
             /\ wave_prev_time' = wave_prev_time
             /\ wave_start_pos' = wave_start_pos]_vars

(* A pair [1,1,0,0,0] and fist handled by the loop, in a state with a     *)
(* thumbs_up entry and a wave reference                                    *)
C21_Witness ==
    /\ trace.n = 2 /\ NoPattern(trace.frame) /\ Len(trace.hands) = 2
    /\ trace.hands[1].fingers = Partial /\ trace.hands[2].fingers = Fist
    /\ gesture = None
    /\ last_gesture_time["thumbs_up"] # Absent
    /\ wave_prev_time # Absent

----------------------------------------------------------------------------
(* Pairs of closed hands whose palm centres are not where the wrists are:  *)
(* the second hand's middle-finger base lies 100 px beside its wrist, so   *)
(* wrists d px apart give palm centres d + 50 px apart.                    *)
MkPalmHand(x, y, b, mx) == [MkHand(x, y, b) EXCEPT ![9] = [x |-> mx, y |-> y + 2]]

PalmFrames ==
    {<<MkHand(Px(0), 0, Fist), MkPalmHand(Px(d), 0, Fist, Px(d + 100))>> : d \in {100, 180}}
        \cup {<<MkHand(Px(0), 0, Fist), MkHand(Px(d), 0, Fist)>> : d \in {119, 201}}

NextPalm ==
    /\ nframes < MaxRuleFrames
    /\ \E f \in PalmFrames, t \in ClapTimes, c \in Cross : detect(f, t, c)

SpecPalm == Init /\ [][NextPalm]_vars

(* C22: the sample a two-hand frame appends to the clap history is the     *)
(* pixel distance between the two palm centres (midpoints of landmark 0    *)
(* and landmark 9).                                                        *)
C22_PalmCentreDistance ==
    (Called /\ trace.n = 2)
        => clap_dist_history[Len(clap_dist_history)] * (2 * SubPix) * (2 * SubPix)
               = get_min_distance(trace.frame)

----------------------------------------------------------------------------
(* C23: each two-hand frame appends one sample at the end of the history   *)
(* and, when that makes more than 10, removes the oldest: the history is   *)
(* the last min(n, 10) distances in arrival order.                         *)
C23_Fifo ==
    [][trace'.n = 2
          => LET d == WristDist(trace'.frame[1], trace'.frame[2])
             IN  clap_dist_history' =
                     IF Len(clap_dist_history) < 10
                     THEN Append(clap_dist_history, d)
                     ELSE Append(Tail(clap_dist_history), d)]_vars

(* A full history after an eviction, its oldest sample close (119 px) and  *)
(* its newest far (201 px)                                                 *)
C23_Witness ==
    /\ trace.popped /\ Len(clap_dist_history) = 10
    /\ clap_dist_history[1] = 119 * 119
    /\ clap_dist_history[10] = 201 * 201
    /\ clap_dist_history[9] = 119 * 119

----------------------------------------------------------------------------
(* Hands for the finger classification: the thumb tip left of, at and      *)
(* right of landmark 3, each finger tip above, level with and below the    *)
(* joint two indices before it; seen in a second call, after a frame that  *)
(* may have left a reference or a table entry.                             *)
MkFingerHand(tx, ys) ==
    [i \in Landmarks |->
        IF i = 3 THEN [x |-> 1, y |-> 1]
        ELSE IF i = 4 THEN [x |-> tx, y |-> 1]
        ELSE IF i \in {8, 12, 16, 20} THEN [x |-> 0, y |-> ys[i \div 4 - 1]]
        ELSE IF i = 0 THEN [x |-> 0, y |-> 0]
        ELSE [x |-> 0, y |-> 1]]

FingerHands == {MkFingerHand(tx, ys) : tx \in 0..2, ys \in [1..4 -> 0..2]}

FirstFrames == {<<>>, <<MkHand(Px(0), 0, ThumbsUp)>>, <<MkHand(Px(250), 0, OpenHand)>>}

NextFingers ==
    \/ /\ nframes = 0
       /\ \E f \in FirstFrames, t \in ClapTimes : detect(f, t, 0)
    \/ /\ nframes = 1
       /\ \E h \in FingerHands, t \in ClapTimes : detect(<<h>>, t, 0)

SpecFingers == Init /\ [][NextFingers]_vars

Bit(b) == IF b THEN 1 ELSE 0

(* C24: the finger list of a hand is [thumb, index, middle, ring, pinky]   *)
(* with thumb = 1 iff landmark[4].x < landmark[3].x and the others 1 iff   *)
(* landmark[tip].y < landmark[tip-2].y for tip 8, 12, 16, 20 (equal gives  *)
(* 0): a function of that hand's landmarks in this frame alone.            *)
C24_FingerVector ==
    \A i \in DOMAIN trace.hands :
        LET h == trace.frame[i]
        IN  trace.hands[i].fingers =
                <<Bit(h[4].x < h[3].x), Bit(h[8].y < h[6].y), Bit(h[12].y < h[10].y),
                  Bit(h[16].y < h[14].y), Bit(h[20].y < h[18].y)>>

(* Thumb and index level with their joints, middle raised, after a frame   *)
(* that left a wave reference                                              *)
C24_Witness ==
    /\ nframes = 2 /\ Len(trace.hands) = 1 /\ wave_prev_time # Absent
    /\ trace.frame[1][4].x = trace.frame[1][3].x
    /\ trace.frame[1][8].y = trace.frame[1][6].y
    /\ trace.frame[1][12].y < trace.frame[1][10].y
    /\ trace.hands[1].fingers = <<0, 0, 1, 0, 0>>

----------------------------------------------------------------------------
(* Construction with overrides: no keyword, or one of the six parameters   *)
(* set to a value other than its default (debounce_time is the code's name *)
(* of debounce_seconds).                                                   *)
KwArgs ==
    {{}, {<<"debounce_time", 3>>}, {<<"debounce_time", 7>>},
     {<<"far_threshold", 150>>}, {<<"close_threshold", 150>>},
     {<<"history_capacity", 5>>}, {<<"wave_window_seconds", 5>>},
     {<<"wave_min_travel_px", 30>>}}

InitKw == \E kw \in KwArgs : init(kw, New(debounce_time))

NextKw ==
    /\ nframes < MaxFrames
    /\ \E f \in PairFrames \cup {<<MkHand(Px(0), 0, ThumbsUp)>>},
          t \in Times, c \in Cross : detect(f, t, c)

SpecKw == InitKw /\ [][NextKw]_vars

Param(name, default) == Given(kwargs, name, default)

(* C25: each of the six parameters given at construction is accepted and   *)
(* is the value its comparison uses; the others keep 200, 120, 10, 1.0 s,  *)
(* 60 px and 0.5 s.                                                        *)
C25_Overridable ==
    /\ self_debounce_time # Absent
    /\ self_debounce_time = Param("debounce_time", 5)
    /\ Len(clap_dist_history) <= Param("history_capacity", 10)
    /\ (Called /\ trace.n = 2)
          => LET h == clap_dist_history
                 far == Param("far_threshold", 200)
                 close == Param("close_threshold", 120)
             IN  RaisedClap(trace) <=> /\ \E i \in 1..(Len(h) - 2) : h[i] > far * far
                                       /\ h[Len(h)] < close * close
    /\ \A i \in DOMAIN trace.hands :
          LET r == trace.hands[i]
          IN  (r.fingers = OpenHand /\ r.ref_t # Absent)
                  => (RaisedWave(r) <=>
                         /\ r.wt - r.ref_t < Param("wave_window_seconds", 10)
                         /\ Abs(r.x - r.ref_x) > Param("wave_min_travel_px", 60) * SubPix)

(* The part of C25 the code provides: debounce_time is taken from the      *)
(* constructor and is what _debounce compares with; without keywords all   *)
(* six defaults are in force.                                              *)
DebounceTimeUsed ==
    [][\A k \in Kinds :
          (Calls(trace', k) = 1 /\ last_gesture_time[k] # Absent)
              => \A t \in trace'.cand[k] :
                     Allowed(trace', k)
                         <=> t - last_gesture_time[k] > Param("debounce_time", 5)]_vars

DefaultsUsed == Accepted(kwargs) => C25_Overridable

----------------------------------------------------------------------------
(* Two instances that differ in the fields detect() never reads            *)
(* (clap_state, prev_dist, prev_time and the thresholds of lines 24-27),   *)
(* given the same frame at the same clock readings in every step.          *)
DeadVariants ==
    {[New(debounce_time) EXCEPT !.cstate = v[1], !.pdist = v[2], !.ptime = v[3],
                                !.dta = v[4], !.dtc = v[5], !.stc = v[6], !.sta = v[7]] :
        v \in {<<"approaching", 150 * 150, 3, 200, 130, 100, 400>>,
               <<"clapped", 50 * 50, 0, 100, 250, 500, 50>>}}

InitDead == \E o \in DeadVariants : init({}, o)

DeadFrames ==
    ClapFrames \cup {<<MkHand(Px(0), 0, ThumbsUp)>>, <<MkHand(Px(0), 0, OpenHand)>>,
                     <<MkHand(Px(250), 0, OpenHand)>>}

detect_both(f, t, cross) ==
    Call(f, t, cross) /\ OtherCall(f, t, cross) /\ UNCHANGED display

NextDead ==
    /\ nframes < MaxRuleFrames
    /\ \E f \in DeadFrames, t \in ClapTimes : detect_both(f, t, 0)

SpecDead == InitDead /\ [][NextDead]_vars

(* C26: the two instances return the same event in every call and hold     *)
(* the same debounce table, clap history and wave reference.               *)
C26_DeadFields ==
    /\ other.gesture = gesture
    /\ other.lgt = last_gesture_time
    /\ other.hist = clap_dist_history
    /\ other.wpt = wave_prev_time /\ other.wsp = wave_start_pos

(* Both returned the clap while clap_state and the thresholds still differ *)
C26_Witness ==
    /\ gesture = "clap_gesture" /\ other.gesture = "clap_gesture"
    /\ other.cstate # clap_state
    /\ other.dtc # dist_threshold_close /\ other.sta # speed_threshold_apart

----------------------------------------------------------------------------
(* Two instances on interleaved streams: a call on the first instance is   *)
(* followed by a call on the second one, which is handed the same frame    *)
(* at the same clock readings (pending), before the first goes on.         *)
TwoFrames ==
    {<<MkHand(Px(0), 0, ThumbsUp)>>, <<MkHand(Px(0), 0, OpenHand)>>,
     <<MkHand(Px(250), 0, OpenHand)>>,
     <<MkHand(Px(0), 0, ThumbsUp), MkHand(Px(250), 0, OpenHand)>>}

detect_first(f, t, cross) ==
    /\ other.pending = <<>>
    /\ Call(f, t, cross)
    /\ other' = [other EXCEPT !.pending = <<[f |-> f, t |-> t, cross |-> cross]>>]
    /\ UNCHANGED display

detect_second ==
    /\ other.pending # <<>>
    /\ OtherCall(other.pending[1].f, other.pending[1].t, other.pending[1].cross)
    /\ UNCHANGED <<last_gesture_time, clap_dist_history, wave_prev_time, wave_start_pos,
                   clap_state, prev_dist, now, gesture, emit_time, trace, nframes,
                   self_debounce_time, kwargs, display>>

NextTwo ==
    \/ /\ nframes < MaxFrames
       /\ \E f \in TwoFrames, t \in ClapTimes, c \in Cross : detect_first(f, t, c)
    \/ detect_second

SpecTwo == Init /\ [][NextTwo]_vars

Fields(s) == <<s.lgt, s.hist, s.wpt, s.wsp>>

----------------------------------------------------------------------------
(* C28: a call that starts without a wave reference never returns wave,    *)
(* even on a frame with two open hands more than 60 px apart.              *)
C28_NoWaveOnSeedingFrame ==
    (trace.hands # <<>> /\ trace.hands[1].ref_t = Absent) => gesture # "wave"

(* C29: once the hands came together and a clap was returned, a following  *)
(* two-hand frame on which the hands are still close returns no second     *)
(* clap, whatever its timestamp.                                           *)
C29_OneClapPerApproach ==
    [][(/\ gesture = "clap_gesture"
        /\ trace'.n = 2
        /\ IsClose(clap_dist_history'[Len(clap_dist_history')]))
          => gesture' # "clap_gesture"]_vars

(* C30: a candidate of kind k that comes within 0.5 s after an event of    *)
(* another kind was returned is allowed or denied by the time of the last  *)
(* returned event of k alone: allowed exactly when there is none or it is  *)
(* more than 0.5 s back.                                                   *)
C30_PerKind ==
    [][\A k \in Kinds :
          Calls(trace', k) = 1 =>
              \A t \in trace'.cand[k] :
                  (\E j \in Kinds \ {k} : emit_time[j] # Absent /\ t - emit_time[j] <= 5)
                      => (Allowed(trace', k)
                             <=> (emit_time[k] = Absent \/ t - emit_time[k] > 5))]_vars

----------------------------------------------------------------------------
(* C31: with frame timestamps that never go back, the debounce table only  *)
(* grows: a kind that has an entry keeps one in every later state, and the *)
(* time stored for a kind never decreases.                                 *)
C31_TableMonotone ==
    [][\A k \in Kinds :
          /\ last_gesture_time[k] # Absent => last_gesture_time'[k] # Absent
          /\ last_gesture_time'[k] >= last_gesture_time[k]]_vars

(* All three kinds have an entry, thumbs_up stored again after the clap    *)
(* that a later call was denied                                            *)
C31_Witness ==
    /\ \A k \in Kinds : last_gesture_time[k] # Absent
    /\ last_gesture_time["thumbs_up"] > last_gesture_time["clap_gesture"]
    /\ trace.clap = "denied"

----------------------------------------------------------------------------
(* Slow drift: frames of one open hand whose wrist is never more than      *)
(* 60 px from where the frame before had it, at calls 0.4 s to 1.0 s       *)
(* apart; up to MaxRuleFrames calls.                                       *)
DriftPositions == {Px(0), Px(30), Px(60), Px(60) + 1, Px(90), Px(120)}
DriftTimes == {t \in {0, 4, 9, 10, 14} : t <= MaxTime}
DriftFrames ==
    {<<MkHand(x, 0, OpenHand)>> : x \in
        {p \in DriftPositions :
            nframes > 0 => Abs(p - trace.frame[1][0].x) <= Px(60)}}

NextDrift ==
    /\ nframes < MaxRuleFrames
    /\ \E f \in DriftFrames, t \in DriftTimes, c \in Cross : detect(f, t, c)

SpecDrift == Init /\ [][NextDrift]_vars

(* Hand record r met a reference less than 1.0 s old and is at most 60 px  *)
(* from it                                                                 *)
StillInWindow(r) ==
    /\ r.fingers = OpenHand
    /\ r.ref_t # Absent
    /\ r.wt - r.ref_t < WaveWindow
    /\ Abs(r.x - r.ref_x) <= WaveMinTravel * SubPix

(* C32: an open hand seen less than 1.0 s after the reference time and at  *)
(* most 60 px from the reference position raises no wave candidate and     *)
(* leaves the reference position and time as they were, so that a hand     *)
(* drifting slowly is still measured from the original reference; a frame  *)
(* of one such hand returns nothing.                                       *)
C32_SlowDrift ==
    \A i \in DOMAIN trace.hands :
        LET r == trace.hands[i]
            a == WaveAfter(trace, wave_prev_time, wave_start_pos, i)
        IN  StillInWindow(r)
                => /\ r.wave = "still"
                   /\ ~RaisedWave(r)
                   /\ a.t = r.ref_t /\ a.x = r.ref_x
                   /\ trace.n = 1 => (gesture = None /\ trace.cand["wave"] = {})

(* The third frame has the hand exactly 60 px from the reference that the  *)
(* first frame set, and the reference is still that one                    *)
C32_Witness ==
    /\ nframes = 3 /\ trace.n = 1
    /\ StillInWindow(trace.hands[1])
    /\ trace.hands[1].x = Px(60) /\ trace.hands[1].ref_x = Px(0)
    /\ wave_start_pos = Px(0) /\ wave_prev_time = trace.hands[1].ref_t
    /\ gesture = None

(* Drift that added up: no frame moved more than 60 px, and the hand is    *)
(* 90 px from the reference and returned as a wave                         *)
DriftAddsUp ==
    /\ trace.n = 1 /\ trace.hands[1].wave = "allowed"
    /\ trace.hands[1].x = Px(90) /\ trace.hands[1].ref_x = Px(0)
    /\ gesture = "wave"

----------------------------------------------------------------------------
(* Frames with an open hand in them, alone or in a pair 250 px apart or at *)
(* one place, next to a far pair of closed hands and the empty frame; up   *)
(* to MaxRuleFrames calls.                                                 *)
FreshFrames ==
    {<<>>,
     <<MkHand(Px(0), 0, OpenHand)>>,
     <<MkHand(Px(0), 0, Fist), MkHand(Px(250), 0, Fist)>>,
     <<MkHand(Px(0), 0, OpenHand), MkHand(Px(250), 0, OpenHand)>>,
     <<MkHand(Px(0), 0, OpenHand), MkHand(Px(0), 0, Fist)>>}

NextFresh ==
    /\ nframes < MaxRuleFrames
    /\ \E f \in FreshFrames, t \in Times, c \in Cross : detect(f, t, c)

SpecFresh == Init /\ [][NextFresh]_vars

(* The last frame handed to detect() had an open hand in it *)
HadOpenHand == \E i \in DOMAIN trace.frame : Fingers(trace.frame[i]) = OpenHand

(* C33 as stated: right after a call on a frame with an open hand in it,   *)
(* the wave reference is present and less than 1.0 s old.                  *)
C33_FreshAfterOpenHand ==
    (Called /\ HadOpenHand)
        => /\ wave_prev_time # Absent
           /\ now - wave_prev_time < WaveWindow

(* C33, amended: right after a call that did not return a clap, on a frame *)
(* with an open hand in it, the wave reference is present, and it is less  *)
(* than 1.0 s older than the clock value the wave block read for that hand *)
(* (it was inside the window, or was set anew on this frame).              *)
C33_Fresh ==
    (Called /\ HadOpenHand /\ gesture # "clap_gesture")
        => /\ wave_prev_time # Absent
           /\ \A i \in DOMAIN trace.hands :
                 LET r == trace.hands[i]
                     a == WaveAfter(trace, wave_prev_time, wave_start_pos, i)
                 IN  r.fingers = OpenHand
                        => /\ r.wave # "no"
                           /\ a.t # Absent
                           /\ r.wt - a.t < WaveWindow
           /\ \E i \in DOMAIN trace.hands :
                 /\ trace.hands[i].fingers = OpenHand
                 /\ trace.hands[i].wt - wave_prev_time < WaveWindow

(* An open hand met a reference 1.0 s old and the reference was set anew,  *)
(* in a frame whose clap candidate the gate denied                         *)
C33_Witness ==
    /\ trace.n = 2 /\ trace.clap = "denied"
    /\ \E i \in DOMAIN trace.hands :
          /\ trace.hands[i].wave = "expired"
          /\ trace.hands[i].wt - trace.hands[i].ref_t >= WaveWindow
    /\ wave_prev_time >= 16

----------------------------------------------------------------------------
(* The wave tracking state exists: both attributes were created *)
WavePresent == wave_prev_time # Absent /\ wave_start_pos # Absent

(* C34: the wave tracking state is absent at construction; a step makes it *)
(* present only when the call met an open hand while it was absent; and    *)
(* once present it is present in every later state.  Position and time are *)
(* present or absent together.                                             *)
C34_WavePresence ==
    /\ wave_prev_time = Absent /\ wave_start_pos = Absent
    /\ [][/\ WavePresent => WavePresent'
          /\ (wave_prev_time' = Absent) = (wave_start_pos' = Absent)
          /\ (~WavePresent /\ WavePresent')
                => \E i \in DOMAIN trace'.hands :
                      /\ trace'.hands[i].fingers = OpenHand
                      /\ trace'.hands[i].ref_t = Absent
                      /\ trace'.hands[i].wave = "seed"
                      /\ \A j \in 1..(i - 1) : trace'.hands[j].fingers # OpenHand]_vars

(* The state is present 1.0 s or more after it was set, after a frame      *)
(* without an open hand and after a wave was returned                      *)
C34_Witness ==
    /\ WavePresent /\ Called /\ ~HadOpenHand
    /\ now - wave_prev_time >= WaveWindow
    /\ emit_time["wave"] # Absent

----------------------------------------------------------------------------
(* C35: a call on a frame with no detected hand returns no event and       *)
(* leaves the debounce table and the wave tracking state as they were.     *)
C35_ZeroHands ==
    [][trace'.n = 0
          => /\ gesture' = None
             /\ last_gesture_time' = last_gesture_time
             /\ wave_prev_time' = wave_prev_time
             /\ wave_start_pos' = wave_start_pos]_vars

(* A frame without hands came after a thumbs-up was returned and a wave    *)
(* reference was stored                                                    *)
C35_Witness ==
    /\ Called /\ trace.n = 0 /\ trace.clap = "skip"
    /\ gesture = None
    /\ last_gesture_time["thumbs_up"] # Absent
    /\ WavePresent

----------------------------------------------------------------------------
(* main() of synesthesia.py: one iteration of "while True" calls detect()  *)
(* on the frame, reads the clock, remembers a returned event and its time, *)
(* and draws the remembered event's shape while it is less than            *)
(* event_display_duration old.  The loop's clock read is the value the     *)
(* clock has when detect() returns.                                        *)

(* ShapeRenderer.event_map, the shape of each event *)
event_map ==
    [e \in {"clap_gesture", "thumbs_up", "wave", "clap_sound", "humming", "snap"} |->
        IF e \in {"clap_gesture", "clap_sound"} THEN "circle"
        ELSE IF e = "thumbs_up" THEN "star"
        ELSE IF e = "wave" THEN "square"
        ELSE IF e = "humming" THEN "triangle"
        ELSE "diamond"]

(* ShapeRenderer.draw(frame, event): event_map.get(event, (None, ...)) *)
draw(event) == IF event \in DOMAIN event_map THEN event_map[event] ELSE NoShape

(* "if event:" and "if last_event": None is false, an event name is true *)
Truthy(e) == e # None

(* Displayed with <= event_display_duration *)
DisplayedInclusive(last, at, tnow) ==
    Truthy(last) /\ tnow - at <= event_display_duration

(* last_event and now - last_event_time < event_display_duration *)
Displayed(last, at, tnow) ==
    Truthy(last) /\ tnow - at < event_display_duration

(* The loop's variables after an iteration in which detect() returned ev   *)
(* and the clock then showed tnow                                          *)
Shown(ev, tnow) ==
    \E le \in {IF Truthy(ev) THEN ev ELSE last_event},
       lt \in {IF Truthy(ev) THEN tnow ELSE last_event_time} :
        /\ last_event' = le
        /\ last_event_time' = lt
        /\ drawn' = IF Displayed(le, lt, tnow) THEN draw(le) ELSE NoShape
        /\ returned' = IF ev # None THEN [event |-> ev, at |-> tnow] ELSE returned

main_loop(f, t, cross) ==
    /\ Call(f, t, cross)
    /\ Shown(gesture', now')
    /\ UNCHANGED other

(* Frames of the loop: no hand, a thumbs-up hand, an open hand at one of   *)
(* two places 250 px apart; up to MaxRuleFrames iterations.                *)
MainFrames ==
    {<<>>, <<MkHand(Px(0), 0, ThumbsUp)>>,
     <<MkHand(Px(0), 0, OpenHand)>>, <<MkHand(Px(250), 0, OpenHand)>>}

NextMain ==
    /\ nframes < MaxRuleFrames
    /\ \E f \in MainFrames, t \in Times, c \in Cross : main_loop(f, t, c)

SpecMain == Init /\ [][NextMain]_vars

(* C36: on the frame the loop showed last, a shape is drawn exactly when   *)
(* detect() has returned an event and less than 1.0 s has passed since the *)
(* most recent one; the shape is that of the most recent event; an event   *)
(* returned on this frame is the one drawn, whatever was shown before.     *)
C36_DisplayLifetime ==
    Called
        => /\ (drawn # NoShape)
                = (returned.event # None /\ now - returned.at < event_display_duration)
           /\ drawn # NoShape => drawn = event_map[returned.event]
           /\ gesture # None => drawn = event_map[gesture]

(* A wave replaced a thumbs-up returned 0.6 s earlier and its square is    *)
(* still drawn on a frame without hands 1.0 s after the thumbs-up          *)
C36_Witness ==
    /\ emit_time["thumbs_up"] = 6 /\ emit_time["wave"] = 12
    /\ now = 16 /\ trace.n = 0 /\ gesture = None
    /\ last_event = "wave" /\ drawn = "square"

(* The shape went away: 1.0 s after the thumbs-up, nothing is drawn *)
DisplayEnded ==
    /\ returned.event = "thumbs_up" /\ returned.at = 6
    /\ now = 16 /\ drawn = NoShape

====
